---- MODULE Spec2Model ----
(***************************************************************************)
(* Model of ironrdp-input's Database (src/ironrdp-input/src/lib.rs): the   *)
(* keyboard and mouse-button bitsets, the cursor, and the two operations   *)
(* that mutate them, apply(transaction) and release_all(), together with   *)
(* the fast-path input events each call returns.                           *)
(***************************************************************************)
EXTENDS Integers, Sequences, FiniteSets, TLC

(***************************************************************************)
(* Bounds of the model.                                                    *)
(***************************************************************************)
\* Longest transaction handed to one apply call.
MaxTxLen == 2

(***************************************************************************)
(* MouseButton (lib.rs 16-38).                                             *)
(***************************************************************************)
LEFT_VAL == 0
MIDDLE_VAL == 1
RIGHT_VAL == 2
X1_VAL == 3
X2_VAL == 4

\* Variant: the bound is off by one, so raw value 5 passes for a known button
is_unknown_OffByOne(button) == button > X2_VAL + 1

\* MouseButton::is_unknown
is_unknown(button) == button > X2_VAL

\* MouseButton::as_idx
MouseButton_as_idx(button) == button

(***************************************************************************)
(* Scancode (lib.rs 54-67): a record [code, extended].                     *)
(***************************************************************************)
Scancode(code, extended) == [code |-> code, extended |-> extended]

\* Variant: the extended half starts one slot early (code + 255)
Scancode_as_idx_Offset255(scancode) ==
    IF scancode.extended THEN scancode.code + 255 ELSE scancode.code

\* Scancode::as_idx
Scancode_as_idx(scancode) ==
    IF scancode.extended THEN scancode.code + 256 ELSE scancode.code

(***************************************************************************)
(* Operation (lib.rs 114-121).                                             *)
(***************************************************************************)
MouseButtonPressed(button) == [op |-> "MouseButtonPressed", button |-> button]
MouseButtonReleased(button) == [op |-> "MouseButtonReleased", button |-> button]
MouseMove(position) == [op |-> "MouseMove", position |-> position]
WheelRotations(is_vertical, rotation_units) ==
    [op |-> "WheelRotations",
     rotations |-> [is_vertical |-> is_vertical, rotation_units |-> rotation_units]]
KeyPressed(scancode) == [op |-> "KeyPressed", scancode |-> scancode]
KeyReleased(scancode) == [op |-> "KeyReleased", scancode |-> scancode]

\* MousePosition { x, y }
MousePosition(x, y) == [x |-> x, y |-> y]

(***************************************************************************)
(* The events apply and release_all return: FastPathInputEvent variants    *)
(* built at lib.rs 193-203, 237-254, 265-283.  A flags value is the set of *)
(* the named flag bits that are or-ed together.                            *)
(***************************************************************************)
MouseEvent(flags, units, x, y) ==
    [event |-> "MouseEvent", flags |-> flags,
     number_of_wheel_rotation_units |-> units,
     x_position |-> x, y_position |-> y]

MouseEventEx(flags, x, y) ==
    [event |-> "MouseEventEx", flags |-> flags,
     x_position |-> x, y_position |-> y]

KeyboardEvent(flags, code) ==
    [event |-> "KeyboardEvent", flags |-> flags, code |-> code]

\* impl From<MouseButton> for MouseButtonFlags (lib.rs 369-380)
MouseButtonFlags_from(value) ==
    CASE value = LEFT_VAL   -> [variant |-> "Button",  flags |-> {"LEFT_BUTTON"}]
      [] value = MIDDLE_VAL -> [variant |-> "Button",  flags |-> {"MIDDLE_BUTTON_OR_WHEEL"}]
      [] value = RIGHT_VAL  -> [variant |-> "Button",  flags |-> {"RIGHT_BUTTON"}]
      [] value = X1_VAL     -> [variant |-> "Pointer", flags |-> {"BUTTON1"}]
      [] value = X2_VAL     -> [variant |-> "Pointer", flags |-> {"BUTTON2"}]
      [] OTHER              -> [variant |-> "Button",  flags |-> {}]

\* The match on MouseButtonFlags that builds a button event (lib.rs 192-204,
\* 217-229, 299-311); `extra` is the DOWN flag on a press and empty otherwise.
ButtonEvent(button, extra, position) ==
    LET mbf == MouseButtonFlags_from(button) IN
    IF mbf.variant = "Button"
    THEN MouseEvent(extra \cup mbf.flags, 0, position.x, position.y)
    ELSE MouseEventEx(extra \cup mbf.flags, position.x, position.y)

(***************************************************************************)
(* Database (lib.rs 127-146).  A bitset is modelled by the set of the      *)
(* indices whose bit is set.                                               *)
(***************************************************************************)
\* Database::new
Database_new ==
    [keyboard |-> {}, mouse_buttons |-> {}, mouse_position |-> MousePosition(0, 0)]

\* BitSlice::replace(idx, value): the bitset afterwards (the old bit is idx \in bits)
replace(bits, idx, value) == IF value THEN bits \cup {idx} ELSE bits \ {idx}

\* BitSlice::iter_ones(): the set bits in ascending index order
RECURSIVE iter_ones(_)
iter_ones(bits) ==
    IF bits = {} THEN <<>>
    ELSE LET first == CHOOSE i \in bits : \A j \in bits : i <= j
         IN  <<first>> \o iter_ones(bits \ {first})

Result(db, evs) == [db |-> db, events |-> evs]

\* Variant: a press is not deduplicated, every press emits its event
ApplyMouseButtonPressed_NoDedup(db, button) ==
    IF is_unknown(button) THEN Result(db, <<>>)
    ELSE Result([db EXCEPT !.mouse_buttons =
                    replace(@, MouseButton_as_idx(button), TRUE)],
                <<ButtonEvent(button, {"DOWN"}, db.mouse_position)>>)

\* Operation::MouseButtonPressed arm (lib.rs 184-208)
ApplyMouseButtonPressed(db, button) ==
    IF is_unknown(button) THEN Result(db, <<>>)
    ELSE LET was_pressed == MouseButton_as_idx(button) \in db.mouse_buttons
             next == [db EXCEPT !.mouse_buttons =
                         replace(@, MouseButton_as_idx(button), TRUE)]
         IN  IF ~was_pressed
             THEN Result(next, <<ButtonEvent(button, {"DOWN"}, db.mouse_position)>>)
             ELSE Result(next, <<>>)

\* Variant: the release event is built like the press event, DOWN included
ApplyMouseButtonReleased_KeepsDown(db, button) ==
    IF is_unknown(button) THEN Result(db, <<>>)
    ELSE LET was_pressed == MouseButton_as_idx(button) \in db.mouse_buttons
             next == [db EXCEPT !.mouse_buttons =
                         replace(@, MouseButton_as_idx(button), FALSE)]
         IN  IF was_pressed
             THEN Result(next, <<ButtonEvent(button, {"DOWN"}, db.mouse_position)>>)
             ELSE Result(next, <<>>)

\* Operation::MouseButtonReleased arm (lib.rs 209-233)
ApplyMouseButtonReleased(db, button) ==
    IF is_unknown(button) THEN Result(db, <<>>)
    ELSE LET was_pressed == MouseButton_as_idx(button) \in db.mouse_buttons
             next == [db EXCEPT !.mouse_buttons =
                         replace(@, MouseButton_as_idx(button), FALSE)]
         IN  IF was_pressed
             THEN Result(next, <<ButtonEvent(button, {}, db.mouse_position)>>)
             ELSE Result(next, <<>>)

\* Variant: a move to the current position is not suppressed
ApplyMouseMove_NoDedup(db, position) ==
    Result([db EXCEPT !.mouse_position = position],
           <<MouseEvent({"MOVE"}, 0, position.x, position.y)>>)

\* Operation::MouseMove arm (lib.rs 234-244)
ApplyMouseMove(db, position) ==
    IF position # db.mouse_position
    THEN Result([db EXCEPT !.mouse_position = position],
                <<MouseEvent({"MOVE"}, 0, position.x, position.y)>>)
    ELSE Result(db, <<>>)

\* Variant: the two axis flags are swapped
ApplyWheelRotations_SwappedAxis(db, rotations) ==
    Result(db,
           <<MouseEvent(IF rotations.is_vertical
                        THEN {"HORIZONTAL_WHEEL"} ELSE {"VERTICAL_WHEEL"},
                        rotations.rotation_units,
                        db.mouse_position.x, db.mouse_position.y)>>)

\* Operation::WheelRotations arm (lib.rs 245-254)
ApplyWheelRotations(db, rotations) ==
    Result(db,
           <<MouseEvent(IF rotations.is_vertical
                        THEN {"VERTICAL_WHEEL"} ELSE {"HORIZONTAL_WHEEL"},
                        rotations.rotation_units,
                        db.mouse_position.x, db.mouse_position.y)>>)

\* Variant: a repeated press emits the press alone, without the release
ApplyKeyPressed_NoRepeat(db, scancode) ==
    Result([db EXCEPT !.keyboard = replace(@, Scancode_as_idx(scancode), TRUE)],
           <<KeyboardEvent(IF scancode.extended THEN {"EXTENDED"} ELSE {},
                           scancode.code)>>)

\* Operation::KeyPressed arm (lib.rs 255-272)
ApplyKeyPressed(db, scancode) ==
    LET was_pressed == Scancode_as_idx(scancode) \in db.keyboard
        next == [db EXCEPT !.keyboard = replace(@, Scancode_as_idx(scancode), TRUE)]
        flags == IF scancode.extended THEN {"EXTENDED"} ELSE {}
    IN  Result(next,
               (IF was_pressed
                THEN <<KeyboardEvent(flags \cup {"RELEASE"}, scancode.code)>>
                ELSE <<>>)
               \o <<KeyboardEvent(flags, scancode.code)>>)

\* Variant: a key release resets the whole keyboard bitset
ApplyKeyReleased_ClearsAll(db, scancode) ==
    LET was_pressed == Scancode_as_idx(scancode) \in db.keyboard
        flags == {"RELEASE"} \cup (IF scancode.extended THEN {"EXTENDED"} ELSE {})
    IN  IF was_pressed
        THEN Result([db EXCEPT !.keyboard = {}],
                    <<KeyboardEvent(flags, scancode.code)>>)
        ELSE Result(db, <<>>)

\* Variant: the release event is pushed whether or not the key was down
ApplyKeyReleased_Unconditional(db, scancode) ==
    LET next == [db EXCEPT !.keyboard = replace(@, Scancode_as_idx(scancode), FALSE)]
        flags == {"RELEASE"} \cup (IF scancode.extended THEN {"EXTENDED"} ELSE {})
    IN  Result(next, <<KeyboardEvent(flags, scancode.code)>>)

\* Variant: the release event never carries EXTENDED
ApplyKeyReleased_NoExtended(db, scancode) ==
    LET was_pressed == Scancode_as_idx(scancode) \in db.keyboard
        next == [db EXCEPT !.keyboard = replace(@, Scancode_as_idx(scancode), FALSE)]
    IN  IF was_pressed
        THEN Result(next, <<KeyboardEvent({"RELEASE"}, scancode.code)>>)
        ELSE Result(next, <<>>)

\* Operation::KeyReleased arm (lib.rs 273-285)
ApplyKeyReleased(db, scancode) ==
    LET was_pressed == Scancode_as_idx(scancode) \in db.keyboard
        next == [db EXCEPT !.keyboard = replace(@, Scancode_as_idx(scancode), FALSE)]
        flags == {"RELEASE"} \cup (IF scancode.extended THEN {"EXTENDED"} ELSE {})
    IN  IF was_pressed
        THEN Result(next, <<KeyboardEvent(flags, scancode.code)>>)
        ELSE Result(next, <<>>)

\* The match of apply's loop body (lib.rs 183-286)
ApplyOperation(db, operation) ==
    CASE operation.op = "MouseButtonPressed"  -> ApplyMouseButtonPressed(db, operation.button)
      [] operation.op = "MouseButtonReleased" -> ApplyMouseButtonReleased(db, operation.button)
      [] operation.op = "MouseMove"           -> ApplyMouseMove(db, operation.position)
      [] operation.op = "WheelRotations"      -> ApplyWheelRotations(db, operation.rotations)
      [] operation.op = "KeyPressed"          -> ApplyKeyPressed(db, operation.scancode)
      [] operation.op = "KeyReleased"         -> ApplyKeyReleased(db, operation.scancode)

\* Variant: the transaction is consumed from its far end, last operation first
RECURSIVE apply_LastFirst(_, _)
apply_LastFirst(db, transaction) ==
    IF transaction = <<>> THEN Result(db, <<>>)
    ELSE LET n == Len(transaction)
             last == ApplyOperation(db, transaction[n])
             rest == apply_LastFirst(last.db, SubSeq(transaction, 1, n - 1))
         IN  Result(rest.db, last.events \o rest.events)

\* Database::apply (lib.rs 179-290): the loop over the transaction, each
\* operation appending its events to the ones pushed so far.
RECURSIVE apply(_, _)
apply(db, transaction) ==
    IF transaction = <<>> THEN Result(db, <<>>)
    ELSE LET head == ApplyOperation(db, Head(transaction))
             rest == apply(head.db, Tail(transaction))
         IN  Result(rest.db, head.events \o rest.events)

\* The first loop of release_all (lib.rs 296-314)
RECURSIVE ReleaseButtons(_, _)
ReleaseButtons(ones, position) ==
    IF ones = <<>> THEN <<>>
    ELSE <<ButtonEvent(Head(ones), {}, position)>>
         \o ReleaseButtons(Tail(ones), position)

\* Variant: the EXTENDED flag is left out of the release event
ReleaseKeyEvent_NoExtended(idx) ==
    LET scancode == IF idx >= 256 THEN idx - 256 ELSE idx
    IN  KeyboardEvent({"RELEASE"}, scancode)

\* The body of the second loop of release_all (lib.rs 317-329)
ReleaseKeyEvent(idx) ==
    LET scancode == IF idx >= 256 THEN idx - 256 ELSE idx
        extended == idx >= 256
        flags == {"RELEASE"} \cup (IF extended THEN {"EXTENDED"} ELSE {})
    IN  KeyboardEvent(flags, scancode)

\* The second loop of release_all (lib.rs 316-330)
RECURSIVE ReleaseKeys(_)
ReleaseKeys(ones) ==
    IF ones = <<>> THEN <<>>
    ELSE <<ReleaseKeyEvent(Head(ones))>> \o ReleaseKeys(Tail(ones))

\* Variant: the keyboard bitset is not cleared
release_all_KeepsKeyboard(db) ==
    Result([db EXCEPT !.mouse_buttons = {}],
           ReleaseButtons(iter_ones(db.mouse_buttons), db.mouse_position)
           \o ReleaseKeys(iter_ones(db.keyboard)))

\* Variant: the two loops run in the other order, keys first
release_all_KeysFirst(db) ==
    Result([db EXCEPT !.mouse_buttons = {}, !.keyboard = {}],
           ReleaseKeys(iter_ones(db.keyboard))
           \o ReleaseButtons(iter_ones(db.mouse_buttons), db.mouse_position))

\* Database::release_all (lib.rs 293-336)
release_all(db) ==
    Result([db EXCEPT !.mouse_buttons = {}, !.keyboard = {}],
           ReleaseButtons(iter_ones(db.mouse_buttons), db.mouse_position)
           \o ReleaseKeys(iter_ones(db.keyboard)))

(***************************************************************************)
(* The caller.  One session owns one Database and serialises its calls     *)
(* (apply and release_all take &mut self).  Its input source emits the     *)
(* operations of a few controls: mouse buttons (the five known ones, the   *)
(* first unknown raw value and the largest u8), keys at both ends of each  *)
(* half of the keyboard bitset, the pointer, and the wheel.                *)
(***************************************************************************)
ButtonValues == (LEFT_VAL .. X2_VAL) \cup {X2_VAL + 1, 255}
KnownButtons == {b \in ButtonValues : ~is_unknown(b)}
Scancodes == {Scancode(code, extended) : code \in {0, 255}, extended \in BOOLEAN}
Positions == {MousePosition(0, 0), MousePosition(65535, 1)}
Rotations == {[is_vertical |-> TRUE, rotation_units |-> 120],
              [is_vertical |-> FALSE, rotation_units |-> -120]}

ButtonControl(b) == {MouseButtonPressed(b), MouseButtonReleased(b)}
KeyControl(sc) == {KeyPressed(sc), KeyReleased(sc)}
PointerControl == {MouseMove(p) : p \in Positions}
WheelControl ==
    {WheelRotations(r.is_vertical, r.rotation_units) : r \in Rotations}

Controls ==
    {ButtonControl(b) : b \in ButtonValues}
    \cup {KeyControl(sc) : sc \in Scancodes}
    \cup {PointerControl, WheelControl}

\* Keys A and B(extended) and button LEFT, the three controls of the
\* exhaustive-release scenario.
ReleaseScenario ==
    KeyControl(Scancode(0, FALSE)) \cup KeyControl(Scancode(255, TRUE))
    \cup ButtonControl(LEFT_VAL)

\* What one session's input source can emit: the operations of one or two
\* controls, or of the three controls of the release scenario.
Sources == {a \cup b : a, b \in Controls} \cup {ReleaseScenario}

\* The transactions a source can hand to apply
Transactions(ops) == UNION {[1 .. n -> ops] : n \in 0 .. MaxTxLen}

(***************************************************************************)
(* The remote peer's notion of what is pressed: it receives the events in  *)
(* emission order; an event without the release flag (keys) or with the    *)
(* down flag (buttons) sets the slot it names, the opposite clears it.     *)
(***************************************************************************)
\* The button each wire flag names, as the peer reads it
WireButtonFlag(b) ==
    CASE b = 0 -> "LEFT_BUTTON"
      [] b = 1 -> "MIDDLE_BUTTON_OR_WHEEL"
      [] b = 2 -> "RIGHT_BUTTON"
      [] b = 3 -> "BUTTON1"
      [] b = 4 -> "BUTTON2"

RemoteButtonSlots(e) ==
    IF e.event = "MouseEvent"
    THEN {b \in 0 .. 2 : WireButtonFlag(b) \in e.flags}
    ELSE IF e.event = "MouseEventEx"
    THEN {b \in 3 .. 4 : WireButtonFlag(b) \in e.flags}
    ELSE {}

RemoteReceive(r, e) ==
    IF e.event = "KeyboardEvent"
    THEN LET slot == e.code + (IF "EXTENDED" \in e.flags THEN 256 ELSE 0)
         IN  [r EXCEPT !.keyboard =
                 IF "RELEASE" \in e.flags THEN @ \ {slot} ELSE @ \cup {slot}]
    ELSE [r EXCEPT !.mouse_buttons =
             IF "DOWN" \in e.flags THEN @ \cup RemoteButtonSlots(e)
                                   ELSE @ \ RemoteButtonSlots(e)]

RECURSIVE Replay(_, _)
Replay(r, evs) ==
    IF evs = <<>> THEN r ELSE Replay(RemoteReceive(r, Head(evs)), Tail(evs))

(***************************************************************************)
(* State.                                                                  *)
(***************************************************************************)
VARIABLES
    keyboard,        \* Database.keyboard: the set bits of the 512-bit set
    mouse_buttons,   \* Database.mouse_buttons: the set bits of the button set
    mouse_position,  \* Database.mouse_position
    events,          \* the events the last call returned
    call,            \* the last call and its argument
    pre,             \* the Database as the last call found it
    remote,          \* the remote peer's pressed keys and buttons
    source           \* the operations this session's input source emits

vars == <<keyboard, mouse_buttons, mouse_position, events, call, pre, remote, source>>

\* The state of a negotiation over the gateway (ironrdp-devolutions-gateway),
\* which shares nothing with the Database
VARIABLES
    src,             \* the caller's BytesMut buffer handed to decode and detect
    wire,            \* the bytes the transport has not delivered yet
    sent,            \* the messages the peer serialized, in order
    ret,             \* what the last call returned
    fn,              \* the last step: "read", "decode" or "detect"
    before           \* the buffer as the last call found it

codec_vars == <<src, wire, sent, ret, fn, before>>

\* No negotiation is under way
CodecIdle ==
    /\ src = <<>>
    /\ wire = <<>>
    /\ sent = <<>>
    /\ ret = [kind |-> "None"]
    /\ fn = "new"
    /\ before = <<>>

\* The Database the three fields make up
Database ==
    [keyboard |-> keyboard, mouse_buttons |-> mouse_buttons,
     mouse_position |-> mouse_position]

Returns(c, r) ==
    /\ keyboard' = r.db.keyboard
    /\ mouse_buttons' = r.db.mouse_buttons
    /\ mouse_position' = r.db.mouse_position
    /\ events' = r.events
    /\ call' = c
    /\ pre' = Database
    /\ remote' = Replay(remote, r.events)
    /\ UNCHANGED source
    /\ UNCHANGED codec_vars

Init ==
    /\ keyboard = Database_new.keyboard
    /\ mouse_buttons = Database_new.mouse_buttons
    /\ mouse_position = Database_new.mouse_position
    /\ events = <<>>
    /\ call = [fn |-> "new"]
    /\ pre = Database_new
    /\ remote = [keyboard |-> {}, mouse_buttons |-> {}]
    /\ source \in Sources
    /\ CodecIdle

\* db.apply(transaction)
Apply ==
    \E transaction \in Transactions(source) :
        Returns([fn |-> "apply", transaction |-> transaction],
                apply(Database, transaction))

\* db.release_all()
ReleaseAll ==
    Returns([fn |-> "release_all"], release_all(Database))

Next == Apply \/ ReleaseAll

Spec == Init /\ [][Next]_<<vars, codec_vars>>

(***************************************************************************)
(* Vocabulary of the properties.  An operation of a transaction runs in    *)
(* the state its predecessors in the transaction left: for the last        *)
(* operation of the last apply call, Before is that state together with    *)
(* the events already pushed, and the call's result is what the operation  *)
(* made of it.                                                             *)
(***************************************************************************)
IsApply == call.fn = "apply"

EndsWith(operation) ==
    /\ IsApply
    /\ call.transaction # <<>>
    /\ call.transaction[Len(call.transaction)] = operation

Before ==
    apply(pre, SubSeq(call.transaction, 1, Len(call.transaction) - 1))

\* The last operation pushed exactly evs and left the Database as db
LastOperationDid(db, evs) ==
    /\ Database = db
    /\ events = Before.events \o evs

\* The wire events, written out field by field
ButtonWireEvent(b, down, position) ==
    IF b \in 0 .. 2
    THEN [event |-> "MouseEvent",
          flags |-> {WireButtonFlag(b)} \cup (IF down THEN {"DOWN"} ELSE {}),
          number_of_wheel_rotation_units |-> 0,
          x_position |-> position.x, y_position |-> position.y]
    ELSE [event |-> "MouseEventEx",
          flags |-> {WireButtonFlag(b)} \cup (IF down THEN {"DOWN"} ELSE {}),
          x_position |-> position.x, y_position |-> position.y]

KeyWireEvent(code, extended, release) ==
    [event |-> "KeyboardEvent",
     flags |-> (IF release THEN {"RELEASE"} ELSE {})
               \cup (IF extended THEN {"EXTENDED"} ELSE {}),
     code |-> code]

(***************************************************************************)
(* C1.  After any sequence of apply and release_all calls on a Database    *)
(* that started from new(), the remote peer that replayed every emitted    *)
(* event in emission order holds exactly the pressed keys and the pressed  *)
(* buttons of the Database's two bitsets.                                  *)
(***************************************************************************)
C1_RemoteInSync ==
    /\ remote.keyboard = keyboard
    /\ remote.mouse_buttons = mouse_buttons

\* One call emitted several events and left a key and a button held
C1_Witness ==
    /\ IsApply
    /\ Len(events) >= 2
    /\ remote.keyboard # {}
    /\ remote.mouse_buttons # {}

(***************************************************************************)
(* C2.  MouseButtonPressed(b) for a known button b: when b's bit is        *)
(* already set, no event is emitted and nothing changes; when it is clear, *)
(* the bit is set and exactly one event is emitted, a legacy pointer event *)
(* for LEFT/MIDDLE/RIGHT or an extended one for X1/X2, carrying the        *)
(* button's flag, the down flag and the current cursor coordinates.        *)
(***************************************************************************)
C2_ButtonPress ==
    \A b \in LEFT_VAL .. X2_VAL :
        EndsWith(MouseButtonPressed(b)) =>
            IF b \in Before.db.mouse_buttons
            THEN LastOperationDid(Before.db, <<>>)
            ELSE LastOperationDid(
                     [Before.db EXCEPT !.mouse_buttons = @ \cup {b}],
                     <<ButtonWireEvent(b, TRUE, Before.db.mouse_position)>>)

\* An extended button went down away from the origin, in the second
\* operation of its transaction
C2_Witness ==
    /\ IsApply
    /\ Len(call.transaction) = 2
    /\ call.transaction[2] = MouseButtonPressed(X1_VAL)
    /\ X1_VAL \notin Before.db.mouse_buttons
    /\ mouse_position # MousePosition(0, 0)
    /\ events # <<>>
    /\ events[Len(events)].event = "MouseEventEx"

(***************************************************************************)
(* C3.  MouseButtonReleased(b) for a known button b: when b's bit is       *)
(* clear, no event is emitted and nothing changes; when it is set, the bit *)
(* is cleared and exactly one event is emitted, of the shape and button    *)
(* flag of b's press event, without the down flag, carrying the current    *)
(* cursor coordinates.                                                     *)
(***************************************************************************)
C3_ButtonRelease ==
    \A b \in LEFT_VAL .. X2_VAL :
        EndsWith(MouseButtonReleased(b)) =>
            IF b \notin Before.db.mouse_buttons
            THEN LastOperationDid(Before.db, <<>>)
            ELSE LastOperationDid(
                     [Before.db EXCEPT !.mouse_buttons = @ \ {b}],
                     <<ButtonWireEvent(b, FALSE, Before.db.mouse_position)>>)

\* A held legacy button was released, another button still being held
C3_Witness ==
    /\ EndsWith(MouseButtonReleased(MIDDLE_VAL))
    /\ MIDDLE_VAL \in Before.db.mouse_buttons
    /\ mouse_buttons # {}
    /\ events # <<>>
    /\ events[Len(events)].event = "MouseEvent"

C5_KeyRelease ==
    \A sc \in Scancodes :
        EndsWith(KeyReleased(sc)) =>
            LET idx == sc.code + (IF sc.extended THEN 256 ELSE 0)
            IN  IF idx \notin Before.db.keyboard
                THEN LastOperationDid(Before.db, <<>>)
                ELSE LastOperationDid(
                         [Before.db EXCEPT !.keyboard = @ \ {idx}],
                         <<KeyWireEvent(sc.code, sc.extended, TRUE)>>)

\* An extended key was released while the key of the same code in the
\* other half of the bitset stays held
C5_Witness ==
    /\ EndsWith(KeyReleased(Scancode(0, TRUE)))
    /\ 256 \in Before.db.keyboard
    /\ keyboard = {0}
    /\ events # <<>>
    /\ "EXTENDED" \in events[Len(events)].flags

(***************************************************************************)
(* C6.  When release_all returns, no key bit and no button bit is set and  *)
(* the cursor is where it was; a second release_all right after it emits   *)
(* no event and leaves the Database as it is.                              *)
(***************************************************************************)
C6_ReleaseAllClears ==
    call.fn = "release_all" =>
        /\ keyboard = {}
        /\ mouse_buttons = {}
        /\ mouse_position = pre.mouse_position
        /\ release_all(Database) = [db |-> Database, events |-> <<>>]
        /\ (pre.keyboard = {} /\ pre.mouse_buttons = {}
                => events = <<>> /\ Database = pre)

\* release_all found a key and a button held
C6_Witness ==
    /\ call.fn = "release_all"
    /\ pre.keyboard # {}
    /\ pre.mouse_buttons # {}
    /\ Len(events) = 2

(***************************************************************************)
(* C7.  release_all emits exactly one release event per set button bit and *)
(* exactly one per set key bit, and nothing else; every button release     *)
(* precedes every key release, buttons are in ascending button index and   *)
(* keys in ascending flattened index, and a key release carries the        *)
(* EXTENDED flag exactly when its index is at least 256.                   *)
(***************************************************************************)
C7_IsKey(e) == e.event = "KeyboardEvent"

C7_ButtonRelease(b) == ButtonWireEvent(b, FALSE, pre.mouse_position)

C7_KeyRelease(idx) ==
    IF idx >= 256 THEN KeyWireEvent(idx - 256, TRUE, TRUE)
                  ELSE KeyWireEvent(idx, FALSE, TRUE)

C7_ReleaseAllEvents ==
    call.fn = "release_all" =>
        /\ Len(events) = Cardinality(pre.mouse_buttons) + Cardinality(pre.keyboard)
        /\ \A b \in pre.mouse_buttons :
               Cardinality({i \in DOMAIN events : events[i] = C7_ButtonRelease(b)}) = 1
        /\ \A idx \in pre.keyboard :
               Cardinality({i \in DOMAIN events : events[i] = C7_KeyRelease(idx)}) = 1
        /\ \A i, j \in DOMAIN events :
               i < j =>
                   /\ C7_IsKey(events[i]) => C7_IsKey(events[j])
                   /\ \A a, b \in pre.mouse_buttons :
                          events[i] = C7_ButtonRelease(a)
                          /\ events[j] = C7_ButtonRelease(b) => a < b
                   /\ \A a, b \in pre.keyboard :
                          events[i] = C7_KeyRelease(a)
                          /\ events[j] = C7_KeyRelease(b) => a < b

\* Keys A and B(extended) and button LEFT were held: three releases
C7_Witness ==
    /\ call.fn = "release_all"
    /\ pre.keyboard = {0, 511}
    /\ pre.mouse_buttons = {LEFT_VAL}
    /\ Len(events) = 3

(***************************************************************************)
(* C8.  MouseMove(pos): when pos is the current cursor, no event is        *)
(* emitted and nothing changes; otherwise the cursor becomes pos and       *)
(* exactly one move event carrying pos is emitted, whatever keys and       *)
(* buttons are held.  Two consecutive moves to the same coordinates emit   *)
(* one move event.                                                         *)
(***************************************************************************)
C8_MoveEvent(position) ==
    [event |-> "MouseEvent", flags |-> {"MOVE"},
     number_of_wheel_rotation_units |-> 0,
     x_position |-> position.x, y_position |-> position.y]

C8_MouseMove ==
    /\ \A p \in Positions :
           EndsWith(MouseMove(p)) =>
               IF p = Before.db.mouse_position
               THEN LastOperationDid(Before.db, <<>>)
               ELSE LastOperationDid([Before.db EXCEPT !.mouse_position = p],
                                     <<C8_MoveEvent(p)>>)
    /\ \A p \in Positions :
           IsApply /\ call.transaction = <<MouseMove(p), MouseMove(p)>>
               => Len(events) <= 1

\* Two moves to the same new position in one transaction, a button held
C8_Witness ==
    /\ IsApply
    /\ call.transaction = <<MouseMove(MousePosition(65535, 1)),
                            MouseMove(MousePosition(65535, 1))>>
    /\ pre.mouse_position = MousePosition(0, 0)
    /\ pre.mouse_buttons # {}
    /\ Len(events) = 1

(***************************************************************************)
(* C9.  WheelRotations(r) always emits exactly one legacy pointer event,   *)
(* in every state and however often it is repeated, carrying               *)
(* r.rotation_units, VERTICAL_WHEEL if r.is_vertical and HORIZONTAL_WHEEL  *)
(* otherwise, and the current cursor coordinates; keyboard bits, button    *)
(* bits and cursor stay as they are.                                       *)
(***************************************************************************)
C9_WheelEvent(r, position) ==
    [event |-> "MouseEvent",
     flags |-> IF r.is_vertical THEN {"VERTICAL_WHEEL"} ELSE {"HORIZONTAL_WHEEL"},
     number_of_wheel_rotation_units |-> r.rotation_units,
     x_position |-> position.x, y_position |-> position.y]

C9_Wheel ==
    \A r \in Rotations :
        EndsWith(WheelRotations(r.is_vertical, r.rotation_units)) =>
            LastOperationDid(Before.db,
                             <<C9_WheelEvent(r, Before.db.mouse_position)>>)

\* The same horizontal rotation twice in one transaction, away from the
\* origin: two events
C9_Witness ==
    /\ IsApply
    /\ call.transaction = <<WheelRotations(FALSE, -120), WheelRotations(FALSE, -120)>>
    /\ mouse_position # MousePosition(0, 0)
    /\ Len(events) = 2
    /\ events[1] = events[2]

(***************************************************************************)
(* C10.  MouseButtonPressed or MouseButtonReleased with a button value     *)
(* above X2 emits no event and changes nothing, and the call goes on: the  *)
(* call returns what it returns for the transaction without that           *)
(* operation.                                                              *)
(***************************************************************************)
C10_Without(transaction, i) ==
    SubSeq(transaction, 1, i - 1) \o SubSeq(transaction, i + 1, Len(transaction))

C10_UnknownButtonDropped ==
    IsApply =>
        \A i \in DOMAIN call.transaction :
            LET operation == call.transaction[i] IN
            (/\ operation.op \in {"MouseButtonPressed", "MouseButtonReleased"}
             /\ operation.button > X2_VAL)
            => /\ apply(pre, C10_Without(call.transaction, i))
                      = [db |-> Database, events |-> events]
               /\ Len(call.transaction) = 1 => events = <<>> /\ Database = pre

\* An unknown button press came first and the known press after it was
\* processed
C10_Witness ==
    /\ IsApply
    /\ call.transaction = <<MouseButtonPressed(255), MouseButtonPressed(X2_VAL)>>
    /\ mouse_buttons = {X2_VAL}
    /\ Len(events) = 1

(***************************************************************************)
(* C18.  Slots are independent: an operation of apply changes the bit of a *)
(* key slot only if it is a KeyPressed or KeyReleased naming that          *)
(* scancode, and the bit of a button slot only if it is a                  *)
(* MouseButtonPressed or MouseButtonReleased naming that button; every     *)
(* other slot keeps its bit, MouseMove and WheelRotations change no bit,   *)
(* and the cursor changes only on MouseMove.  Outside apply, only          *)
(* release_all changes a bit.                                              *)
(***************************************************************************)
C18_Changed(a, b) == (a \ b) \cup (b \ a)

C18_SlotsIndependent ==
    /\ (IsApply /\ call.transaction # <<>>) =>
           LET operation == call.transaction[Len(call.transaction)] IN
           /\ \A idx \in C18_Changed(keyboard, Before.db.keyboard) :
                  /\ operation.op \in {"KeyPressed", "KeyReleased"}
                  /\ idx = operation.scancode.code
                           + (IF operation.scancode.extended THEN 256 ELSE 0)
           /\ \A b \in C18_Changed(mouse_buttons, Before.db.mouse_buttons) :
                  /\ operation.op \in {"MouseButtonPressed", "MouseButtonReleased"}
                  /\ b = operation.button
           /\ mouse_position # Before.db.mouse_position
                  => operation.op = "MouseMove"
    /\ (keyboard # pre.keyboard \/ mouse_buttons # pre.mouse_buttons)
           => call.fn \in {"apply", "release_all"}
    /\ mouse_position # pre.mouse_position => IsApply

\* A key was released while the key of the same code in the other half of
\* the bitset stays held
C18_Witness ==
    /\ EndsWith(KeyReleased(Scancode(255, FALSE)))
    /\ Before.db.keyboard = {255, 511}
    /\ keyboard = {511}

(***************************************************************************)
(* C19.  The flattened index Scancode::as_idx is code + 256 for an         *)
(* extended scancode and code otherwise, lies in 0..511 and is injective:  *)
(* scancodes that differ in code or in the extended flag have different    *)
(* slots; and release_all's mapping of an index back to (code, extended)   *)
(* recovers the scancode whose press set the bit.                          *)
(***************************************************************************)
C19_AllScancodes == {Scancode(code, extended) : code \in 0 .. 255, extended \in BOOLEAN}

C19_IndexMap ==
    /\ \A sc \in C19_AllScancodes :
           /\ Scancode_as_idx(sc) = sc.code + (IF sc.extended THEN 256 ELSE 0)
           /\ Scancode_as_idx(sc) \in 0 .. 511
           /\ ReleaseKeyEvent(Scancode_as_idx(sc))
                  = KeyWireEvent(sc.code, sc.extended, TRUE)
    /\ Cardinality({Scancode_as_idx(sc) : sc \in C19_AllScancodes})
           = Cardinality(C19_AllScancodes)

C19_FlattenedIndex ==
    /\ C19_IndexMap
    /\ keyboard \subseteq 0 .. 511
    /\ \A sc \in Scancodes :
           EndsWith(KeyPressed(sc)) =>
               keyboard = Before.db.keyboard
                          \cup {sc.code + (IF sc.extended THEN 256 ELSE 0)}
    /\ call.fn = "release_all" =>
           LET keys == {i \in DOMAIN events : events[i].event = "KeyboardEvent"}
           IN  /\ Cardinality(keys) = Cardinality(pre.keyboard)
               /\ {Scancode_as_idx(Scancode(events[i].code,
                                            "EXTENDED" \in events[i].flags))
                      : i \in keys} = pre.keyboard

\* release_all found the last slot of the lower half and the first slot of
\* the extended half set
C19_Witness ==
    /\ call.fn = "release_all"
    /\ pre.keyboard = {255, 256}
    /\ Len(events) = 2

(***************************************************************************)
(* C20.  apply processes a transaction in input order and composes: for    *)
(* every split of the transaction into xs and ys, apply(xs ++ ys) returns  *)
(* the events of apply(xs) followed by those of apply(ys) run on the       *)
(* Database apply(xs) left, and ends in the same Database; each operation  *)
(* contributes between zero and two events.                                *)
(***************************************************************************)
C20_Compositional ==
    IsApply =>
        LET tx == call.transaction
            n == Len(tx)
        IN  /\ \A k \in 0 .. n :
                   LET first == apply(pre, SubSeq(tx, 1, k))
                       second == apply(first.db, SubSeq(tx, k + 1, n))
                   IN  /\ second.db = Database
                       /\ first.events \o second.events = events
            /\ \A k \in 1 .. n :
                   Len(apply(pre, SubSeq(tx, 1, k)).events)
                   - Len(apply(pre, SubSeq(tx, 1, k - 1)).events) \in 0 .. 2

\* A move followed by a button press in one transaction: the press carries
\* the position the move set
C20_Witness ==
    /\ IsApply
    /\ pre.mouse_position = MousePosition(0, 0)
    /\ call.transaction = <<MouseMove(MousePosition(65535, 1)),
                            MouseButtonPressed(LEFT_VAL)>>
    /\ Len(events) = 2
    /\ events[2].x_position = 65535

(***************************************************************************)
(* C21.  Over any sequence of apply and release_all calls from a new       *)
(* Database, the events sent for one key or one button alternate press,    *)
(* release, press, ... beginning with a press: every event the remote peer *)
(* receives is a press of a slot it sees as released or a release of a     *)
(* slot it sees as pressed.                                                *)
(***************************************************************************)
\* The event e changes every slot it names, as the peer r sees them
C21_Toggles(r, e) ==
    IF e.event = "KeyboardEvent"
    THEN ("RELEASE" \in e.flags)
             <=> (e.code + (IF "EXTENDED" \in e.flags THEN 256 ELSE 0) \in r.keyboard)
    ELSE \A b \in RemoteButtonSlots(e) :
             ("DOWN" \in e.flags) <=> (b \notin r.mouse_buttons)

RECURSIVE C21_Alternating(_, _)
C21_Alternating(r, evs) ==
    \/ evs = <<>>
    \/ /\ C21_Toggles(r, Head(evs))
       /\ C21_Alternating(RemoteReceive(r, Head(evs)), Tail(evs))

C21_StrictAlternation == [][C21_Alternating(remote, events')]_vars

\* A key the peer sees as pressed is pressed again and released in one
\* transaction: the peer is sent release, press, release
C21_Witness ==
    /\ IsApply
    /\ 0 \in pre.keyboard
    /\ call.transaction = <<KeyPressed(Scancode(0, FALSE)), KeyReleased(Scancode(0, FALSE))>>
    /\ events = <<KeyWireEvent(0, FALSE, TRUE), KeyWireEvent(0, FALSE, FALSE),
                  KeyWireEvent(0, FALSE, TRUE)>>

(***************************************************************************)
(* ironrdp-devolutions-gateway (src/ironrdp-devolutions-gateway/src/lib.rs)*)
(* RDCleanPathPdu and RDCleanPathErr are DER SEQUENCEs whose fields are    *)
(* EXPLICIT context-specific; the derive attributes (lib.rs 8-45) fix the  *)
(* schema, and the der crate's Encode and Decode do the work behind        *)
(* to_der (206), from_der (81, 98) and encoded_len (100).  A byte string   *)
(* is a sequence of numbers 0..255; Option is None or Some(v).             *)
(***************************************************************************)
BASE_VERSION == 3389
VERSION_1 == BASE_VERSION + 1

None == <<>>
Some(v) == <<v>>

\* Universal tags and the context-specific constructed tag [n]
TAG_INTEGER == 2
TAG_OCTET_STRING == 4
TAG_UTF8_STRING == 12
TAG_SEQUENCE == 48
ContextSpecificTag(number) == 160 + number

\* The fields of the two structs, in declaration order: the tag number of
\* `context_specific`, the Rust type, and `optional`
RDCleanPathErrSchema ==
    << [name |-> "error_code",       number |-> 0, kind |-> "u16", optional |-> FALSE],
       [name |-> "http_status_code", number |-> 1, kind |-> "u16", optional |-> TRUE],
       [name |-> "wsa_last_error",   number |-> 2, kind |-> "u16", optional |-> TRUE],
       [name |-> "tls_alert_code",   number |-> 3, kind |-> "u8",  optional |-> TRUE] >>

RDCleanPathPduSchema ==
    << [name |-> "version",             number |-> 0, kind |-> "u64", optional |-> FALSE],
       [name |-> "error",               number |-> 1, kind |-> "RDCleanPathErr", optional |-> TRUE],
       [name |-> "destination",         number |-> 2, kind |-> "String", optional |-> TRUE],
       [name |-> "proxy_auth",          number |-> 3, kind |-> "String", optional |-> TRUE],
       [name |-> "server_auth",         number |-> 4, kind |-> "String", optional |-> TRUE],
       [name |-> "preconnection_blob",  number |-> 5, kind |-> "String", optional |-> TRUE],
       [name |-> "x224_connection_pdu", number |-> 6, kind |-> "OctetString", optional |-> TRUE],
       [name |-> "server_cert_chain",   number |-> 7, kind |-> "Vec<OctetString>", optional |-> TRUE],
       [name |-> "server_addr",         number |-> 9, kind |-> "String", optional |-> TRUE] >>

\* The reduced schema detect decodes with (lib.rs 74-79)
PartialRDCleanPathPduSchema ==
    << [name |-> "version", number |-> 0, kind |-> "u64", optional |-> FALSE] >>

SchemaOf(kind) ==
    CASE kind = "RDCleanPathErr" -> RDCleanPathErrSchema
      [] kind = "RDCleanPathPdu" -> RDCleanPathPduSchema
      [] kind = "PartialRDCleanPathPdu" -> PartialRDCleanPathPduSchema

\* Bytes of the unsigned integer types
UintSize(kind) ==
    CASE kind = "u8" -> 1 [] kind = "u16" -> 2 [] kind = "u64" -> 8

(***************************************************************************)
(* der::Encode.                                                            *)
(***************************************************************************)
\* The big-endian bytes of n without leading zeroes (none for 0)
RECURSIVE BigEndian(_)
BigEndian(n) == IF n = 0 THEN <<>> ELSE BigEndian(n \div 256) \o <<n % 256>>

\* Length::encode: short form below 128, else 0x80 + the count of length bytes
EncodeLength(n) ==
    IF n < 128 THEN <<n>> ELSE <<128 + Len(BigEndian(n))>> \o BigEndian(n)

\* Header and value
EncodeTagged(tag, value) == <<tag>> \o EncodeLength(Len(value)) \o value

\* Variant: no leading zero byte is added when the top bit is set
EncodeUint_NoLeadingZero(v) ==
    EncodeTagged(TAG_INTEGER, IF v = 0 THEN <<0>> ELSE BigEndian(v))

\* INTEGER of an unsigned value: minimal big-endian bytes, with a leading
\* zero byte when the top bit is set
EncodeUint(v) ==
    LET b == IF v = 0 THEN <<0>> ELSE BigEndian(v)
    IN  EncodeTagged(TAG_INTEGER, IF b[1] >= 128 THEN <<0>> \o b ELSE b)

RECURSIVE EncodeKind(_, _)
RECURSIVE EncodeFields(_, _)

\* The fields of a derived Sequence in declaration order; an absent
\* optional field is left out
EncodeFields(value, schema) ==
    IF schema = <<>> THEN <<>>
    ELSE LET f == Head(schema)
             present == ~f.optional \/ value[f.name] # None
             v == IF f.optional THEN value[f.name][1] ELSE value[f.name]
         IN  (IF present
              THEN EncodeTagged(ContextSpecificTag(f.number), EncodeKind(f.kind, v))
              ELSE <<>>)
             \o EncodeFields(value, Tail(schema))

RECURSIVE EncodeOctetStrings(_)
EncodeOctetStrings(chain) ==
    IF chain = <<>> THEN <<>>
    ELSE EncodeTagged(TAG_OCTET_STRING, Head(chain)) \o EncodeOctetStrings(Tail(chain))

\* Encode for each Rust type of the schema
EncodeKind(kind, v) ==
    CASE kind \in {"u8", "u16", "u64"} -> EncodeUint(v)
      [] kind = "String" -> EncodeTagged(TAG_UTF8_STRING, v)
      [] kind = "OctetString" -> EncodeTagged(TAG_OCTET_STRING, v)
      [] kind = "Vec<OctetString>" -> EncodeTagged(TAG_SEQUENCE, EncodeOctetStrings(v))
      [] OTHER -> EncodeTagged(TAG_SEQUENCE, EncodeFields(v, SchemaOf(kind)))

\* RDCleanPathPdu::to_der (lib.rs 205-207)
to_der(pdu) == EncodeKind("RDCleanPathPdu", pdu)

\* Encode::encoded_len, as decode asks it of the decoded message (lib.rs 100)
encoded_len(pdu) == Len(to_der(pdu))

(***************************************************************************)
(* The construction recipes (lib.rs 47-61, 118-203).  OctetString::new     *)
(* fails only on a value longer than der's maximal length, which the       *)
(* sampled values never are.                                               *)
(***************************************************************************)
\* impl Default for RDCleanPathPdu
RDCleanPathPdu_default ==
    [version |-> VERSION_1, error |-> None, destination |-> None,
     proxy_auth |-> None, server_auth |-> None, preconnection_blob |-> None,
     x224_connection_pdu |-> None, server_cert_chain |-> None,
     server_addr |-> None]

RDCleanPathErr(error_code, http_status_code, wsa_last_error, tls_alert_code) ==
    [error_code |-> error_code, http_status_code |-> http_status_code,
     wsa_last_error |-> wsa_last_error, tls_alert_code |-> tls_alert_code]

new_request(x224_pdu, destination, proxy_auth, pcb) ==
    [RDCleanPathPdu_default EXCEPT
        !.destination = Some(destination),
        !.proxy_auth = Some(proxy_auth),
        !.preconnection_blob = pcb,
        !.x224_connection_pdu = Some(x224_pdu)]

new_response(server_addr, x224_pdu, x509_chain) ==
    [RDCleanPathPdu_default EXCEPT
        !.x224_connection_pdu = Some(x224_pdu),
        !.server_cert_chain = Some(x509_chain),
        !.server_addr = Some(server_addr)]

new_general_error ==
    [RDCleanPathPdu_default EXCEPT !.error = Some(RDCleanPathErr(1, None, None, None))]

new_http_error(status_code) ==
    [RDCleanPathPdu_default EXCEPT
        !.error = Some(RDCleanPathErr(1, Some(status_code), None, None))]

new_wsa_error(wsa_error_code) ==
    [RDCleanPathPdu_default EXCEPT
        !.error = Some(RDCleanPathErr(1, None, Some(wsa_error_code), None))]

\* Variant: the alert code is stored and the HTTP status is set as well
new_tls_error_AlsoHttp(alert_code) ==
    [RDCleanPathPdu_default EXCEPT
        !.error = Some(RDCleanPathErr(1, Some(alert_code), None, Some(alert_code)))]

new_tls_error(alert_code) ==
    [RDCleanPathPdu_default EXCEPT
        !.error = Some(RDCleanPathErr(1, None, None, Some(alert_code)))]

(***************************************************************************)
(* der::Decode.  A reader is the input, the position reached (an offset    *)
(* from the start of the input) and the end of the innermost nested        *)
(* reader it reads through; a step returns the decoded value and the new   *)
(* position, or an error.  ErrorKind::Incomplete carries the lengths       *)
(* decode uses; TrailingData is told apart; every other kind is an error   *)
(* that both detect and decode only pass on or map to Failed.              *)
(***************************************************************************)
DerOk(value, pos) == [ok |-> TRUE, value |-> value, pos |-> pos]

DerIncomplete(expected_len, actual_len) ==
    [ok |-> FALSE, kind |-> "Incomplete",
     expected_len |-> expected_len, actual_len |-> actual_len]

DerError(kind) == [ok |-> FALSE, kind |-> kind]

\* Reader::read_slice: len bytes, or Incomplete when they pass the end
ReadSlice(bytes, pos, end, len) ==
    IF pos + len <= end
    THEN DerOk(SubSeq(bytes, pos + 1, pos + len), pos + len)
    ELSE DerIncomplete(pos + len, end)

\* Tag::try_from(u8): the universal tags der knows, and any application,
\* context-specific or private tag with a number below 31
TagIsKnown(byte) ==
    \/ byte \in {1, 2, 3, 4, 5, 6, 9, 10, 12, 18, 19, 20, 21, 22, 23, 24, 26, 30, 48, 49}
    \/ (byte >= 64 /\ byte % 32 # 31)

TagIsContextSpecific(byte) == byte \div 64 = 2
TagIsConstructed(byte) == (byte \div 32) % 2 = 1
TagNumber(byte) == byte % 32

\* The ? operator: an error is returned at once, a value is passed on
Try(r, Then(_)) == IF r.ok THEN Then(r) ELSE r

\* Tag::decode
DecodeTag(bytes, pos, end) ==
    Try(ReadSlice(bytes, pos, end, 1), LAMBDA r :
        IF TagIsKnown(r.value[1]) THEN DerOk(r.value[1], r.pos)
        ELSE DerError("TagUnknown"))

\* The loop of Length::decode over the octets of a long-form length, one
\* read_byte each
RECURSIVE ReadLengthOctets(_, _, _, _, _)
ReadLengthOctets(bytes, pos, end, nbytes, decoded_len) ==
    IF nbytes = 0 THEN DerOk(decoded_len, pos)
    ELSE Try(ReadSlice(bytes, pos, end, 1), LAMBDA r :
             ReadLengthOctets(bytes, r.pos, end, nbytes - 1,
                              decoded_len * 256 + r.value[1]))

\* Length::decode: short form, or 0x81..0x84 and as many octets, which must
\* be the shortest encoding of a length of at most 0xFFFFFFF
DecodeLength(bytes, pos, end) ==
    Try(ReadSlice(bytes, pos, end, 1), LAMBDA r :
        IF r.value[1] < 128 THEN DerOk(r.value[1], r.pos)
        ELSE IF r.value[1] = 128 THEN DerError("IndefiniteLength")
        ELSE IF r.value[1] > 132 THEN DerError("Overlength")
        ELSE Try(ReadLengthOctets(bytes, r.pos, end, r.value[1] - 128, 0), LAMBDA l :
                 IF l.value > 268435455 THEN DerError("Overflow")
                 ELSE IF EncodeLength(l.value)[1] # r.value[1] THEN DerError("Overlength")
                 ELSE l))

\* Header::decode
DecodeHeader(bytes, pos, end) ==
    Try(DecodeTag(bytes, pos, end), LAMBDA t :
        Try(DecodeLength(bytes, t.pos, end), LAMBDA l :
            DerOk([tag |-> t.value, length |-> l.value], l.pos)))

\* NestedReader::new: a nested reader of len bytes must fit in what is left
NestedFits(pos, end, len) == len <= end - pos

\* Reader::finish: the value, or TrailingData when bytes are left
Finish(r, end) ==
    IF r.ok /\ r.pos # end THEN DerError("TrailingData") ELSE r

\* uint::decode_to_slice and decode_to_array: the value of the bytes of an
\* INTEGER read as an unsigned integer of `size` bytes
DecodeUintBytes(b, size) ==
    IF b = <<>> THEN DerError("Noncanonical")
    ELSE IF b = <<0>> THEN DerOk(0, 0)
    ELSE IF b[1] = 0 /\ b[2] < 128 THEN DerError("Noncanonical")
    ELSE IF b[1] >= 128 THEN DerError("Value")
    ELSE LET digits == IF b[1] = 0 THEN Tail(b) ELSE b
             Value[i \in 0 .. Len(digits)] ==
                 IF i = 0 THEN 0 ELSE Value[i - 1] * 256 + digits[i]
         IN  IF Len(digits) > size THEN DerError("Length")
             ELSE DerOk(Value[Len(digits)], 0)

\* Decode for u8, u16, u64
DecodeUint(bytes, pos, end, size) ==
    Try(DecodeHeader(bytes, pos, end), LAMBDA h :
        IF h.value.tag # TAG_INTEGER THEN DerError("TagUnexpected")
        ELSE IF h.value.length > size + 1 THEN DerError("Noncanonical")
        ELSE Try(ReadSlice(bytes, h.pos, end, h.value.length), LAMBDA r :
                 Try(DecodeUintBytes(r.value, size), LAMBDA v :
                     DerOk(v.value, r.pos))))

\* String::from_utf8 on the bytes read
RECURSIVE IsUtf8(_)
IsUtf8(b) ==
    IF b = <<>> THEN TRUE
    ELSE LET n == CASE b[1] < 128 -> 1
                    [] b[1] \in 194 .. 223 -> 2
                    [] b[1] \in 224 .. 239 -> 3
                    [] b[1] \in 240 .. 244 -> 4
                    [] OTHER -> 0
         IN  /\ n # 0
             /\ Len(b) >= n
             /\ \A i \in 2 .. n : b[i] \in 128 .. 191
             /\ IsUtf8(SubSeq(b, n + 1, Len(b)))

\* Decode for String (UTF8String) and OctetString (OCTET STRING)
DecodeBytes(bytes, pos, end, tag) ==
    Try(DecodeHeader(bytes, pos, end), LAMBDA h :
        IF h.value.tag # tag THEN DerError("TagUnexpected")
        ELSE Try(ReadSlice(bytes, h.pos, end, h.value.length), LAMBDA r :
                 IF tag = TAG_UTF8_STRING /\ ~IsUtf8(r.value) THEN DerError("Utf8")
                 ELSE r))

\* The loop of Decode for Vec<OctetString>: while !reader.is_finished()
RECURSIVE DecodeOctetStrings(_, _, _, _)
DecodeOctetStrings(bytes, pos, end, seq) ==
    IF pos >= end THEN DerOk(seq, pos)
    ELSE Try(DecodeBytes(bytes, pos, end, TAG_OCTET_STRING), LAMBDA r :
             DecodeOctetStrings(bytes, r.pos, end, Append(seq, r.value)))

\* The loop of ContextSpecific::decode_with: fields with a lower
\* context-specific number are skipped (decoded as Any), the loop ends at
\* the end of the reader, at a tag of another class or at a higher number.
\* The value is TRUE at the field looked for and FALSE when it is absent.
RECURSIVE SeekContextSpecific(_, _, _, _)
SeekContextSpecific(bytes, pos, end, number) ==
    IF pos >= end THEN DerOk(FALSE, pos)
    ELSE IF ~TagIsKnown(bytes[pos + 1]) THEN DerError("TagUnknown")
    ELSE IF ~TagIsContextSpecific(bytes[pos + 1]) \/ TagNumber(bytes[pos + 1]) > number
    THEN DerOk(FALSE, pos)
    ELSE IF TagNumber(bytes[pos + 1]) = number THEN DerOk(TRUE, pos)
    ELSE Try(DecodeHeader(bytes, pos, end), LAMBDA h :
             Try(ReadSlice(bytes, h.pos, end, h.value.length), LAMBDA r :
                 SeekContextSpecific(bytes, r.pos, end, number)))

RECURSIVE DecodeKind(_, _, _, _)
RECURSIVE DecodeFields(_, _, _, _, _)

\* ContextSpecific::<T>::decode_explicit: None when the field is absent,
\* else the header [n] constructed and T in a nested reader of its length
DecodeExplicit(bytes, pos, end, number, kind) ==
    Try(SeekContextSpecific(bytes, pos, end, number), LAMBDA s :
        IF ~s.value THEN DerOk(None, s.pos)
        ELSE Try(DecodeHeader(bytes, s.pos, end), LAMBDA h :
            IF ~TagIsConstructed(h.value.tag) THEN DerError("TagUnexpected")
            ELSE IF ~NestedFits(h.pos, end, h.value.length)
            THEN DerIncomplete(h.pos + h.value.length, end)
            ELSE Try(Finish(DecodeKind(kind, bytes, h.pos, h.pos + h.value.length),
                            h.pos + h.value.length),
                     LAMBDA r : DerOk(Some(r.value), r.pos))))

\* The body of a derived DecodeValue: the fields in declaration order; a
\* required field that is absent is an error
DecodeFields(bytes, pos, end, schema, decoded) ==
    IF schema = <<>> THEN DerOk(decoded, pos)
    ELSE Try(DecodeExplicit(bytes, pos, end, Head(schema).number, Head(schema).kind),
             LAMBDA r :
                IF ~Head(schema).optional /\ r.value = None THEN DerError("Value")
                ELSE DecodeFields(bytes, r.pos, end, Tail(schema),
                         decoded @@ (Head(schema).name :>
                             IF Head(schema).optional THEN r.value ELSE r.value[1])))

\* Decode for each Rust type of the schema.  A SEQUENCE (a derived struct
\* or a Vec) reads its header, checks the tag and decodes its value in a
\* nested reader of the header's length, which it must use up.
DecodeKind(kind, bytes, pos, end) ==
    CASE kind \in {"u8", "u16", "u64"} -> DecodeUint(bytes, pos, end, UintSize(kind))
      [] kind = "String" -> DecodeBytes(bytes, pos, end, TAG_UTF8_STRING)
      [] kind = "OctetString" -> DecodeBytes(bytes, pos, end, TAG_OCTET_STRING)
      [] OTHER ->
           Try(DecodeHeader(bytes, pos, end), LAMBDA h :
               IF h.value.tag # TAG_SEQUENCE THEN DerError("TagUnexpected")
               ELSE IF ~NestedFits(h.pos, end, h.value.length)
               THEN DerIncomplete(h.pos + h.value.length, end)
               ELSE IF kind = "Vec<OctetString>"
               THEN DecodeOctetStrings(bytes, h.pos, h.pos + h.value.length, <<>>)
               ELSE Finish(DecodeFields(bytes, h.pos, h.pos + h.value.length,
                                        SchemaOf(kind), <<>>),
                           h.pos + h.value.length))

\* Decode::from_der: a SliceReader over the whole input, T::decode, and
\* finish, which makes bytes left after the value a TrailingData error
from_der(kind, bytes) ==
    Finish(DecodeKind(kind, bytes, 0, Len(bytes)), Len(bytes))

(***************************************************************************)
(* RDCleanPathPdu::detect and RDCleanPathPdu::decode (lib.rs 69-116).      *)
(***************************************************************************)
Detected(version) == [kind |-> "Detected", version |-> version]
NotEnoughBytes == [kind |-> "NotEnoughBytes"]
Failed == [kind |-> "Failed"]

\* Variant: the version read is reported whatever it is
detect_AnyVersion(buffer) ==
    LET r == from_der("PartialRDCleanPathPdu", buffer)
    IN  IF r.ok THEN Detected(r.value.version)
        ELSE IF r.kind = "Incomplete" THEN NotEnoughBytes
        ELSE Failed

\* Variant: an unsupported version is reported like a truncated buffer
detect_OtherVersionIsTruncated(buffer) ==
    LET r == from_der("PartialRDCleanPathPdu", buffer)
    IN  IF r.ok
        THEN IF r.value.version = VERSION_1 THEN Detected(r.value.version)
             ELSE NotEnoughBytes
        ELSE IF r.kind = "Incomplete" THEN NotEnoughBytes
        ELSE Failed

\* RDCleanPathPdu::detect (lib.rs 71-91)
detect(buffer) ==
    LET r == from_der("PartialRDCleanPathPdu", buffer)
    IN  IF r.ok
        THEN IF r.value.version = VERSION_1 THEN Detected(r.value.version)
             ELSE Failed
        ELSE IF r.kind = "Incomplete" THEN NotEnoughBytes
        ELSE Failed

\* What a decode call leaves: its return value, the buffer, and the
\* argument of src.reserve when it was called
Decoded(result, buffer, reserved) ==
    [ret |-> result, src |-> buffer, reserved |-> reserved]

OkSome(pdu) == [kind |-> "Some", pdu |-> pdu]
OkNone == [kind |-> "None"]
Err(kind) == [kind |-> "Err", error |-> kind]
Panic == [kind |-> "Panic"]

\* Variant: a truncated buffer is passed on as an error like any other
decode_IncompleteIsError(buffer) ==
    LET r == from_der("RDCleanPathPdu", buffer)
    IN  IF r.ok
        THEN Decoded(OkSome(r.value),
                     SubSeq(buffer, encoded_len(r.value) + 1, Len(buffer)), None)
        ELSE Decoded(Err(r.kind), buffer, None)

\* RDCleanPathPdu::decode (lib.rs 94-116).  Buf::advance panics on a count
\* above the bytes held; expected_len - src.len() is a usize subtraction,
\* which panics in a debug build when it underflows and in a release build
\* wraps to a count no reserve call can satisfy.
decode(buffer) ==
    LET r == from_der("RDCleanPathPdu", buffer)
    IN  IF r.ok
        THEN LET len == encoded_len(r.value)
             IN  IF len > Len(buffer) THEN Decoded(Panic, buffer, None)
                 ELSE Decoded(OkSome(r.value),
                              SubSeq(buffer, len + 1, Len(buffer)), None)
        ELSE IF r.kind = "Incomplete"
        THEN IF r.expected_len < Len(buffer) THEN Decoded(Panic, buffer, None)
             ELSE Decoded(OkNone, buffer, Some(r.expected_len - Len(buffer)))
        ELSE Decoded(Err(r.kind), buffer, None)

(***************************************************************************)
(* A negotiation.  The peer serializes one or more messages back to back;  *)
(* the transport appends the bytes to the caller's buffer in chunks of any *)
(* size; the caller calls detect and decode on the buffer whenever it      *)
(* likes.                                                                  *)
(***************************************************************************)
\* Longest certificate chain of a sampled response
MaxChainLen == 2
\* Most messages the peer sends back to back
MaxStreamLen == 2

StringSamples == {<<>>, <<100, 195, 169>>}
OctetSamples == {<<>>, <<222, 173>>}
ChainSamples == UNION {[1 .. n -> {<<222, 173>>}] : n \in 0 .. MaxChainLen}
U16Samples == {0, 128, 500, 65535}
U8Samples == {0, 48, 255}

Made(recipe, pdu) == [recipe |-> recipe, pdu |-> pdu]

\* What the construction recipes return on the sampled arguments
RecipeMessages ==
    {Made("new_request", new_request(x, d, a, pcb)) :
        x \in OctetSamples, d \in StringSamples, a \in StringSamples,
        pcb \in {None, Some(<<80, 67, 66>>)}}
    \cup {Made("new_response", new_response(addr, x, chain)) :
        addr \in StringSamples, x \in OctetSamples, chain \in ChainSamples}
    \cup {Made("new_general_error", new_general_error)}
    \cup {Made("new_http_error", new_http_error(c)) : c \in U16Samples}
    \cup {Made("new_wsa_error", new_wsa_error(c)) : c \in U16Samples}
    \cup {Made("new_tls_error", new_tls_error(c)) : c \in U8Samples}

\* Messages written as struct literals (every field is pub): the default
\* message, and messages that carry another version
OtherVersions == {0, BASE_VERSION, VERSION_1 + 1}

LiteralMessages ==
    {Made("literal", RDCleanPathPdu_default)}
    \cup {Made("literal", [RDCleanPathPdu_default EXCEPT !.version = v]) :
             v \in OtherVersions}
    \cup {Made("literal", [new_general_error EXCEPT !.version = v]) :
             v \in OtherVersions}
    \cup {Made("literal",
               [new_request(<<222, 173>>, <<100>>, <<>>, None) EXCEPT !.version = v]) :
             v \in OtherVersions}

\* The messages sent back to back with others
BackToBackMessages ==
    {Made("new_general_error", new_general_error),
     Made("new_tls_error", new_tls_error(255)),
     Made("new_request", new_request(<<222, 173>>, <<>>, <<100, 195, 169>>, None)),
     Made("new_response", new_response(<<>>, <<>>, <<>>))}

Streams ==
    {<<m>> : m \in RecipeMessages \cup LiteralMessages}
    \cup UNION {[1 .. n -> BackToBackMessages] : n \in 2 .. MaxStreamLen}

\* The bytes of a stream
RECURSIVE Serialize(_)
Serialize(stream) ==
    IF stream = <<>> THEN <<>>
    ELSE to_der(Head(stream).pdu) \o Serialize(Tail(stream))

\* The Database is not in use
InputIdle ==
    /\ keyboard = Database_new.keyboard
    /\ mouse_buttons = Database_new.mouse_buttons
    /\ mouse_position = Database_new.mouse_position
    /\ events = <<>>
    /\ call = [fn |-> "new"]
    /\ pre = Database_new
    /\ remote = [keyboard |-> {}, mouse_buttons |-> {}]
    /\ source = {}

CodecInit ==
    /\ sent \in Streams
    /\ wire = Serialize(sent)
    /\ src = <<>>
    /\ ret = OkNone
    /\ fn = "new"
    /\ before = <<>>
    /\ InputIdle

\* The transport appends the next count bytes to the buffer
Read ==
    \E count \in 1 .. Len(wire) :
        /\ src' = src \o SubSeq(wire, 1, count)
        /\ wire' = SubSeq(wire, count + 1, Len(wire))
        /\ fn' = "read"
        /\ ret' = [kind |-> "Read"]
        /\ before' = src'
        /\ UNCHANGED <<sent, vars>>

\* RDCleanPathPdu::decode(&mut src)
Decode ==
    /\ src' = decode(src).src
    /\ ret' = decode(src).ret
    /\ fn' = "decode"
    /\ before' = src
    /\ UNCHANGED <<wire, sent, vars>>

\* RDCleanPathPdu::detect(&src)
Detect ==
    /\ ret' = detect(src)
    /\ fn' = "detect"
    /\ before' = src
    /\ UNCHANGED <<src, wire, sent, vars>>

CodecNext == Read \/ Decode \/ Detect

SpecCodec == CodecInit /\ [][CodecNext]_<<vars, codec_vars>>

(***************************************************************************)
(* A faulty or hostile peer.  decode and detect take whatever bytes the    *)
(* transport delivered: here an encoded message with one octet damaged,    *)
(* followed by the first octets of a next message.                         *)
(***************************************************************************)
\* Most octets that follow the damaged message
MaxExtraLen == 2

\* The values a damaged octet takes: one more or one less than it was, zero,
\* and the long-form marker
DamagedOctets(octet) == {(octet + 1) % 256, (octet + 255) % 256, 0, 128} \ {octet}

Damage(bytes, i, octet) == [bytes EXCEPT ![i] = octet]

\* Every way of damaging one octet of an encoding
DamagedEncodings(bytes) ==
    UNION {{Damage(bytes, i, octet) : octet \in DamagedOctets(bytes[i])} :
              i \in 1 .. Len(bytes)}

DamagedMessages ==
    UNION {DamagedEncodings(to_der(m.pdu)) :
              m \in BackToBackMessages \cup {Made("literal", RDCleanPathPdu_default)}}

HostileBuffers ==
    {damaged \o SubSeq(to_der(new_general_error), 1, n) :
        damaged \in DamagedMessages, n \in 0 .. MaxExtraLen}

HostileInit ==
    /\ sent = <<>>
    /\ wire \in HostileBuffers
    /\ src = <<>>
    /\ ret = OkNone
    /\ fn = "new"
    /\ before = <<>>
    /\ InputIdle

HostileNext == Read \/ Decode \/ Detect

SpecHostile == HostileInit /\ [][HostileNext]_<<vars, codec_vars>>

(***************************************************************************)
(* Vocabulary of the codec properties.                                     *)
(***************************************************************************)
\* The bytes of the i-th message sent
Encoded(i) == to_der(sent[i].pdu)

\* The i-th message sent came from a construction recipe
FromRecipe(i) == sent[i].recipe # "literal"

IsPrefix(a, b) == Len(a) <= Len(b) /\ SubSeq(b, 1, Len(a)) = a
IsStrictPrefix(a, b) == IsPrefix(a, b) /\ Len(a) < Len(b)

\* C11: decode on a buffer holding two back-to-back messages m1 then m2
\* returns Some(m1) and removes exactly the bytes of m1, leaving those of m2.
\* The code does not do this: from_der refuses input with bytes after the
\* first message, and decode passes that error on with the buffer as it was.
C11_ExactConsumption ==
    (fn = "decode" /\ Len(sent) >= 2 /\ before = Encoded(1) \o Encoded(2))
        => (ret = OkSome(sent[1].pdu) /\ src = Encoded(2))

\* C12: while the buffer holds a strict prefix of the encoding of a recipe
\* message (the empty prefix included), decode returns Ok(None) and leaves the
\* buffer as it was; the first decode with all bytes present returns the
\* message and empties the buffer; no decode of the delivery returns an error.
C12_ChunkedDelivery ==
    (fn = "decode" /\ Len(sent) = 1 /\ FromRecipe(1))
        => /\ ret.kind \in {"None", "Some"}
           /\ IsPrefix(before, Encoded(1))
           /\ IsStrictPrefix(before, Encoded(1)) => (ret = OkNone /\ src = before)
           /\ before = Encoded(1) => (ret = OkSome(sent[1].pdu) /\ src = <<>>)

C12_Witness ==
    /\ fn = "decode" /\ Len(sent) = 1 /\ FromRecipe(1)
    /\ before # <<>> /\ IsStrictPrefix(before, Encoded(1))
    /\ ret = OkNone /\ src = before

\* C13: decoding the encoding of a message made by a construction recipe
\* yields a message equal to it in every field.
C13_RoundTrip ==
    (fn = "decode" /\ FromRecipe(1) /\ before = Encoded(1))
        => /\ ret.kind = "Some"
           /\ DOMAIN ret.pdu = DOMAIN sent[1].pdu
           /\ \A field \in DOMAIN sent[1].pdu : ret.pdu[field] = sent[1].pdu[field]

C13_Witness ==
    /\ fn = "decode" /\ before = Encoded(1)
    /\ sent[1].recipe = "new_http_error"
    /\ sent[1].pdu.error[1].http_status_code = Some(65535)
    /\ ret = OkSome(sent[1].pdu)

\* Where the version field of the i-th message ends in its encoding
C14_VersionEnd(i) ==
    (Len(Encoded(i)) - Len(EncodeFields(sent[i].pdu, RDCleanPathPduSchema)))
    + Len(EncodeTagged(ContextSpecificTag(0), EncodeUint(sent[i].pdu.version)))

\* C14: on a prefix of a message of the supported version, detect returns
\* NotEnoughBytes while the prefix is shorter than the version field and
\* Detected(version) from there on, the complete message included.  The code
\* does not do this: the reduced schema is decoded with from_der, which wants
\* the whole SEQUENCE present and nothing in it after the version.
C14_DetectFraming ==
    (fn = "detect" /\ sent[1].pdu.version = VERSION_1 /\ IsPrefix(before, Encoded(1)))
        => IF Len(before) < C14_VersionEnd(1)
           THEN ret = NotEnoughBytes
           ELSE ret = Detected(VERSION_1)

\* C15: detect returns Detected(v) only for v = VERSION_1; on a well-formed
\* message with another version it returns Failed.
C15_OnlySupportedVersion ==
    fn = "detect"
        => /\ ret.kind = "Detected" => ret.version = VERSION_1
           /\ (before = Encoded(1) /\ sent[1].pdu.version # VERSION_1) => ret = Failed

C15_Witness ==
    /\ fn = "detect" /\ before = Encoded(1)
    /\ sent[1].pdu.version = BASE_VERSION
    /\ ret = Failed

C17_Set(m) == {field \in DOMAIN m : field # "version" /\ m[field] # None}

C17_Request(m) ==
    /\ {"destination", "proxy_auth", "x224_connection_pdu"} \subseteq C17_Set(m)
    /\ C17_Set(m) \subseteq
           {"destination", "proxy_auth", "x224_connection_pdu", "preconnection_blob"}

C17_Response(m) ==
    C17_Set(m) = {"x224_connection_pdu", "server_cert_chain", "server_addr"}

C17_Error(m) ==
    /\ C17_Set(m) = {"error"}
    /\ m.error[1].error_code = 1
    /\ Cardinality({field \in {"http_status_code", "wsa_last_error", "tls_alert_code"} :
                       m.error[1][field] # None}) <= 1

\* C17: every message a construction recipe returns has version VERSION_1
\* and the shape of its recipe: a request, a response, or an error with
\* error_code 1 and at most one of its three optional fields set.
C17_LegalShapes ==
    \A i \in 1 .. Len(sent) :
        FromRecipe(i)
            => /\ sent[i].pdu.version = VERSION_1
               /\ CASE sent[i].recipe = "new_request" -> C17_Request(sent[i].pdu)
                    [] sent[i].recipe = "new_response" -> C17_Response(sent[i].pdu)
                    [] OTHER -> C17_Error(sent[i].pdu)

C17_Witness ==
    /\ sent[1].recipe = "new_tls_error"
    /\ sent[1].pdu.error[1].tls_alert_code = Some(48)
    /\ fn = "decode" /\ ret = OkSome(sent[1].pdu)

\* C22: whenever decode takes its Incomplete branch, the expected length
\* the decoder reports is at least the buffer length, so expected_len -
\* src.len() does not underflow and decode returns Ok(None) without a panic,
\* for every buffer.  The code does not keep this: a nested reader reports
\* expected_len as the end of the field that overran its SEQUENCE, which lies
\* before the end of a buffer that holds further bytes.
C22_ReservationInRange ==
    (fn = "decode" /\ ~from_der("RDCleanPathPdu", before).ok
                   /\ from_der("RDCleanPathPdu", before).kind = "Incomplete")
        => /\ from_der("RDCleanPathPdu", before).expected_len >= Len(before)
           /\ ret = OkNone

====
